---- MODULE Spec2Model ----
(***************************************************************************)
(* Authentication backend of Procurement-Blockchain: the login, current-   *)
(* user and token-verification handlers of backend/main.py, the database   *)
(* handle of backend/database.py and the user-creation helper of           *)
(* backend/create_user.py, over a document store of users and roles.       *)
(*                                                                         *)
(* Python values are records [k, n, s]: k is the type, n the number of an  *)
(* int or bool, s the characters of a str or of an ObjectId's hex form.    *)
(* A document is a function from its field names to such values; a field   *)
(* that is absent is outside its DOMAIN, a null field holds PyNone.        *)
(***************************************************************************)
EXTENDS Integers, Sequences, FiniteSets, TLC

VARIABLES
    users,      \* db.users: the documents in insertion (natural) order
    roles,      \* db.roles
    counters,   \* db.counters: the "userid" sequence, 0 when not yet upserted
    database,   \* database.py's global `database`: "none" or "connected"
    hashSeed,   \* the running interpreter's string-hash seed
    now,        \* the clock
    last,       \* the last request handled: what it was given and what it answered
    firstId,    \* the first (stored identifier, integer id) pair any call answered
    session,    \* the last successful login: its token, record and summary
    procs       \* the create_user invocations: position and locals of each

vars == <<users, roles, counters, database, hashSeed, now, last, firstId,
          session, procs>>

---------------------------------------------------------------------------
(* Python values *)

PyNone == [k |-> "none", n |-> 0, s |-> <<>>]

PyInt(i) == [k |-> "int", n |-> i, s |-> <<>>]

PyBool(b) == [k |-> "bool", n |-> IF b THEN 1 ELSE 0, s |-> <<>>]

PyStr(str) == [k |-> "str", n |-> 0, s |-> str]

ObjectId(hex) == [k |-> "oid", n |-> 0, s |-> hex]

PyTrue == PyBool(TRUE)

PyFalse == PyBool(FALSE)

\* Python truthiness: None, 0, False and "" are falsy; an ObjectId is truthy.
Truthy(v) ==
    CASE v.k = "none" -> FALSE
      [] v.k = "int"  -> v.n # 0
      [] v.k = "bool" -> v.n # 0
      [] v.k = "str"  -> v.s # <<>>
      [] OTHER        -> TRUE

\* dict.get(key, default): the default only when the key is absent.
Get(doc, key, default) == IF key \in DOMAIN doc THEN doc[key] ELSE default

\* dict.get(key): None when the key is absent.
Get1(doc, key) == Get(doc, key, PyNone)

\* Python's `a or b`.
Or(a, b) == IF Truthy(a) THEN a ELSE b

---------------------------------------------------------------------------
(* Strings: str(), str.isdigit(), int(), str.lower(), hash() *)

DigitChars == <<"0", "1", "2", "3", "4", "5", "6", "7", "8", "9">>

DigitVal(c) == (CHOOSE i \in 1..10 : DigitChars[i] = c) - 1

RECURSIVE NatToStr(_)
NatToStr(i) ==
    IF i < 10 THEN <<DigitChars[i + 1]>>
    ELSE NatToStr(i \div 10) \o <<DigitChars[(i % 10) + 1]>>

\* str(v)
Str(v) ==
    CASE v.k = "int"  -> IF v.n < 0 THEN <<"-">> \o NatToStr(-v.n) ELSE NatToStr(v.n)
      [] v.k = "bool" -> IF v.n = 1 THEN <<"T", "r", "u", "e">>
                         ELSE <<"F", "a", "l", "s", "e">>
      [] v.k = "none" -> <<"N", "o", "n", "e">>
      [] OTHER        -> v.s

\* str.isdigit(): non-empty and every character a digit.
IsDigit(str) ==
    /\ str # <<>>
    /\ \A i \in 1..Len(str) : \E d \in 1..10 : DigitChars[d] = str[i]

RECURSIVE ParseNat(_)
ParseNat(str) ==
    IF str = <<>> THEN 0
    ELSE 10 * ParseNat(SubSeq(str, 1, Len(str) - 1)) + DigitVal(str[Len(str)])

\* int(v) for an int or an all-digit str
ToInt(v) == IF v.k \in {"int", "bool"} THEN v.n ELSE ParseNat(v.s)

UpperChars == <<"A", "B", "C", "D", "E", "F", "G", "H", "I", "J", "K", "L", "M",
                "N", "O", "P", "Q", "R", "S", "T", "U", "V", "W", "X", "Y", "Z">>

LowerChars == <<"a", "b", "c", "d", "e", "f", "g", "h", "i", "j", "k", "l", "m",
                "n", "o", "p", "q", "r", "s", "t", "u", "v", "w", "x", "y", "z">>

LowerChar(c) ==
    IF \E i \in 1..26 : UpperChars[i] = c
    THEN LowerChars[CHOOSE i \in 1..26 : UpperChars[i] = c]
    ELSE c

\* str.lower()
Lower(str) == [i \in 1..Len(str) |-> LowerChar(str[i])]

\* The characters an identifier's string form is made of, for hashing.
HashAlphabet == DigitChars \o <<"a", "b", "c", "d", "e", "f", "-">>

CharCode(c) == CHOOSE i \in 1..Len(HashAlphabet) : HashAlphabet[i] = c

HashRange == 65521

RECURSIVE HashFold(_, _)
HashFold(h, str) ==
    IF str = <<>> THEN h
    ELSE HashFold((h * 31 + CharCode(str[1])) % HashRange, Tail(str))

\* hash(str): a keyed hash under the interpreter's per-process seed; the value
\* is a signed machine integer, negative for half of the range.
PyHash(seed, str) == HashFold(seed, str) - (HashRange \div 2)

---------------------------------------------------------------------------
(* auth.py: verify_password, get_password_hash, create_access_token,       *)
(* decode_access_token.  The file is imported by main.py and create_user.py *)
(* and is not among the sources; these follow the specification's 4.1 step *)
(* 5 and 4.2.                                                              *)

HashPrefix == <<"$", "2", "b", "$">>

\* get_password_hash(password): a value in the recognised hash format.
get_password_hash(password) == HashPrefix \o password

IsHashFormat(stored) ==
    Len(stored) >= Len(HashPrefix) /\ SubSeq(stored, 1, Len(HashPrefix)) = HashPrefix

\* verify_password(plain, stored): by the hash algorithm when the stored value
\* is a recognised hash, by exact string equality otherwise.
verify_password(plain, stored) ==
    IF IsHashFormat(stored.s) THEN stored.s = get_password_hash(plain)
    ELSE stored.s = plain

SecretKey == "dev-secret-key"

TokenTTL == 2

Sign(key, claims) == [key |-> key, over |-> claims]

\* create_access_token(data): the claims and the expiry, signed.
create_access_token(data, t) ==
    LET claims == [sub |-> data.sub, user_id |-> data.user_id, role |-> data.role,
                   exp |-> t + TokenTTL]
    IN  [claims |-> claims, sig |-> Sign(SecretKey, claims)]

\* decode_access_token(token): the payload, or None (the empty set) when the
\* signature does not match or the expiry has been reached.
decode_access_token(token, t) ==
    IF token.sig = Sign(SecretKey, token.claims) /\ t < token.claims.exp
    THEN {token.claims}
    ELSE {}

---------------------------------------------------------------------------
(* The store: find_one *)

\* A filter {field: value} matches a document whose field equals the value; a
\* null value also matches a document without the field.
Matches(doc, field, value) ==
    IF value = PyNone THEN Get1(doc, field) = PyNone
    ELSE field \in DOMAIN doc /\ doc[field] = value

\* collection.find_one({field: value}): the first match in natural order, or
\* None (the empty set).
FindOne(coll, field, value) ==
    LET hits == {i \in 1..Len(coll) : Matches(coll[i], field, value)}
    IN  IF hits = {} THEN {}
        ELSE {coll[CHOOSE i \in hits : \A j \in hits : i <= j]}

---------------------------------------------------------------------------
(* login: its steps *)

Admin == <<"a", "d", "m", "i", "n">>

Employee == <<"e", "m", "p", "l", "o", "y", "e", "e">>

\* The three 401 raises of login and its 403 raise.
NoUserError == [status |-> 401, detail |-> "Invalid username or password"]

NoCredentialError == [status |-> 401, detail |-> "Invalid username or password"]

\* BadPasswordError with a detail of its own.
BadPasswordErrorTold == [status |-> 401, detail |-> "Incorrect password"]

BadPasswordError == [status |-> 401, detail |-> "Invalid username or password"]

DisabledError == [status |-> 403, detail |-> "User account is disabled"]

\* The handler of `except Exception`: whatever was raised becomes a 500.
InternalError(cause) ==
    [status |-> 500, detail |-> "An error occurred during login: " \o cause]

\* user.get("password_hash") or user.get("password") or user.get("hashed_password")
password_hash(user) ==
    Or(Or(Get1(user, "password_hash"), Get1(user, "password")),
       Get1(user, "hashed_password"))

\* IsInactive without the status field.
IsInactiveByFlagOnly(user) == Get1(user, "is_active") = PyFalse

\* user.get("is_active") is False or user.get("status") == "inactive"
IsInactive(user) ==
    \/ Get1(user, "is_active") = PyFalse
    \/ Get1(user, "status") = PyStr(<<"i", "n", "a", "c", "t", "i", "v", "e">>)

\* The filter of the role lookup: by "id" for an int reference, by "_id" otherwise.
RoleFilterField(role_id) == IF role_id.k \in {"int", "bool"} THEN "id" ELSE "_id"

\* role_name after the lookup: the found entity's name (the inline role when it
\* has no name field), the inline role when nothing was looked up or found.
ResolveRole(user, roleColl) ==
    LET inline  == Get(user, "role", PyStr(Employee))
        role_id == Get1(user, "role_id")
        found   == IF Truthy(role_id)
                   THEN FindOne(roleColl, RoleFilterField(role_id), role_id)
                   ELSE {}
    IN  IF found = {} THEN inline
        ELSE Get(CHOOSE r \in found : TRUE, "name", inline)

\* role_name.lower() == "admin" or user.get("is_admin", False)
IsAdmin(role_name, user) ==
    IF Lower(role_name.s) = Admin THEN PyTrue ELSE Get(user, "is_admin", PyFalse)

\* user_id: the "id" field, else str(_id), else 0.
ResolveUserId(user) ==
    LET a == Get1(user, "id")
        b == IF ~Truthy(a) /\ Truthy(Get1(user, "_id"))
             THEN PyStr(Str(user["_id"])) ELSE a
    IN  IF ~Truthy(b) THEN PyInt(0) ELSE b

Modulus == 2147483647

\* int(user_id) if str(user_id).isdigit() else hash(str(user_id)) % 2147483647
user_id_int(user_id, seed) ==
    IF IsDigit(Str(user_id)) THEN ToInt(user_id)
    ELSE PyHash(seed, Str(user_id)) % Modulus

\* token_data with the record's inline role instead of the resolved one.
token_data_inline_role(user, user_id, role_name) ==
    [sub |-> Get(user, "username", PyStr(<<>>)),
     user_id |-> Str(user_id),
     role |-> Get(user, "role", PyStr(Employee))]

\* token_data with the identity read from the "id" field alone.
token_data_from_id_field(user, user_id, role_name) ==
    [sub |-> Get(user, "username", PyStr(<<>>)),
     user_id |-> Str(Get1(user, "id")),
     role |-> role_name]

\* token_data
token_data(user, user_id, role_name) ==
    [sub |-> Get(user, "username", PyStr(<<>>)),
     user_id |-> Str(user_id),
     role |-> role_name]

\* format_datetime(dt)
format_datetime(dt) == IF ~Truthy(dt) THEN PyNone ELSE PyStr(Str(dt))

\* user_data, the user summary of the response
user_data(user, id_int, role_name, is_admin) ==
    [id |-> id_int,
     username |-> Or(Get1(user, "username"), PyStr(<<>>)),
     full_name |-> Or(Or(Get1(user, "full_name"), Get1(user, "name")), PyStr(<<>>)),
     position |-> Or(Get1(user, "position"), PyStr(<<>>)),
     department |-> Or(Get1(user, "department"), PyStr(<<>>)),
     role |-> role_name,
     is_admin |-> is_admin,
     created_at |-> format_datetime(Get1(user, "created_at")),
     updated_at |-> format_datetime(Get1(user, "updated_at"))]

---------------------------------------------------------------------------
(* login: the handler *)

\* StoreFailure taken for a lookup that found nothing.
StoreFailureAsNoUser(call) == [status |-> 401, detail |-> "Invalid username or password"]

\* What a store call that raises becomes: login's `except Exception`.
StoreFailure(call) == InternalError("store failure in " \o call)

\* role_name.lower() on a role_name that is None raises AttributeError, which
\* login's `except Exception` turns into a 500.
RoleNameCrash == InternalError("'NoneType' object has no attribute 'lower'")

Answer(calls, failed, doc, resp, token, user, ident, db) ==
    [calls |-> calls, failed |-> failed, doc |-> doc, status |-> resp.status,
     detail |-> resp.detail, token |-> token, user |-> user, ident |-> ident,
     db |-> db]

\* get_database(): connects when the global is None; connect_to_mongo leaves it
\* None when the ping raises.
get_database(db) == IF db = "none" THEN <<"connect_to_mongo">> ELSE <<>>

\* The user lookup: by username, then by email when nothing was found.
LookupCalls(userColl, username) ==
    IF FindOne(userColl, "username", PyStr(username)) = {}
    THEN <<"find_username", "find_email">>
    ELSE <<"find_username">>

LookupUser(userColl, username) ==
    LET byName == FindOne(userColl, "username", PyStr(username))
    IN  IF byName = {} THEN FindOne(userColl, "email", PyStr(username)) ELSE byName

\* The part of login after the password was verified and the account found
\* active: role, admin flag, id, token, summary.
LoginIdentity(user, roleColl, seed, t, calls, failAt) ==
    LET lookup == Truthy(Get1(user, "role_id"))
        calls2 == IF lookup THEN calls \o <<"find_role">> ELSE calls
    IN  IF lookup /\ failAt = "find_role"
        THEN Answer(calls2, "find_role", {user}, StoreFailure("find_role"),
                    {}, {}, {}, "connected")
        ELSE
        LET role_name == ResolveRole(user, roleColl)
        IN  IF role_name.k # "str"
            THEN Answer(calls2, "none", {user}, RoleNameCrash, {}, {}, {}, "connected")
            ELSE
            LET is_admin == IsAdmin(role_name, user)
                user_id  == ResolveUserId(user)
                token    == create_access_token(token_data(user, user_id, role_name), t)
                id_int   == user_id_int(user_id, seed)
            IN  Answer(calls2, "none", {user},
                       [status |-> 200, detail |-> "Login successful"],
                       {token}, {user_data(user, id_int, role_name, is_admin)},
                       {user_id}, "connected")

\* login(login_request), with the store call that raises (if any) as failAt.
login(userColl, roleColl, db, seed, t, username, password, failAt) ==
    LET c0 == get_database(db)
        c1 == c0 \o <<"find_username">>
        c2 == c0 \o LookupCalls(userColl, username)
    IN  IF db = "none" /\ failAt = "connect_to_mongo"
        THEN Answer(c0, "connect_to_mongo", {}, StoreFailure("connect_to_mongo"),
                    {}, {}, {}, "none")
        ELSE IF failAt = "find_username"
        THEN Answer(c1, "find_username", {}, StoreFailure("find_username"),
                    {}, {}, {}, "connected")
        ELSE IF failAt = "find_email" /\ Len(c2) > Len(c1)
        THEN Answer(c2, "find_email", {}, StoreFailure("find_email"),
                    {}, {}, {}, "connected")
        ELSE
        LET found == LookupUser(userColl, username)
        IN  IF found = {}
            THEN Answer(c2, "none", {}, NoUserError, {}, {}, {}, "connected")
            ELSE
            LET user == CHOOSE u \in found : TRUE
                cred == password_hash(user)
            IN  IF ~Truthy(cred)
                THEN Answer(c2, "none", found, NoCredentialError, {}, {}, {}, "connected")
                ELSE IF ~verify_password(password, cred)
                THEN Answer(c2, "none", found, BadPasswordError, {}, {}, {}, "connected")
                ELSE IF IsInactive(user)
                THEN Answer(c2, "none", found, DisabledError, {}, {}, {}, "connected")
                ELSE LoginIdentity(user, roleColl, seed, t, c2, failAt)

---------------------------------------------------------------------------
(* get_current_user (/api/auth/me) and verify_token (/api/auth/verify) *)

TokenError == [status |-> 401, detail |-> "Invalid or expired token"]

UserNotFound == [status |-> 404, detail |-> "User not found"]

MeFailure(cause) == [status |-> 500, detail |-> "An error occurred: " \o cause]

\* get_current_user(credentials), with the store call that raises as failAt.
get_current_user(token, userColl, roleColl, db, seed, t, failAt) ==
    LET payload == decode_access_token(token, t)
        c0 == get_database(db)
        c1 == c0 \o <<"find_username">>
    IN  IF payload = {}
        THEN Answer(<<>>, "none", {}, TokenError, {}, {}, {}, db)
        ELSE IF db = "none" /\ failAt = "connect_to_mongo"
        THEN Answer(c0, "connect_to_mongo", {}, MeFailure("connect_to_mongo"),
                    {}, {}, {}, "none")
        ELSE IF failAt = "find_username"
        THEN Answer(c1, "find_username", {}, MeFailure("find_username"),
                    {}, {}, {}, "connected")
        ELSE
        LET found == FindOne(userColl, "username", (CHOOSE c \in payload : TRUE).sub)
        IN  IF found = {}
            THEN Answer(c1, "none", {}, UserNotFound, {}, {}, {}, "connected")
            ELSE
            LET user   == CHOOSE u \in found : TRUE
                lookup == Truthy(Get1(user, "role_id"))
                c2     == IF lookup THEN c1 \o <<"find_role">> ELSE c1
            IN  IF lookup /\ failAt = "find_role"
                THEN Answer(c2, "find_role", found, MeFailure("find_role"),
                            {}, {}, {}, "connected")
                ELSE
                LET role_name == ResolveRole(user, roleColl)
                IN  IF role_name.k # "str"
                    THEN Answer(c2, "none", found,
                                MeFailure("'NoneType' object has no attribute 'lower'"),
                                {}, {}, {}, "connected")
                    ELSE
                    LET is_admin == IsAdmin(role_name, user)
                        user_id  == ResolveUserId(user)
                        id_int   == user_id_int(user_id, seed)
                    IN  Answer(c2, "none", found, [status |-> 200, detail |-> "ok"],
                               {}, {user_data(user, id_int, role_name, is_admin)},
                               {user_id}, "connected")

\* verify_token that also requires the token's subject to be an active user now.
verify_token_live(token, t) ==
    LET payload == decode_access_token(token, t)
        found   == IF payload = {} THEN {}
                   ELSE FindOne(users, "username", (CHOOSE c \in payload : TRUE).sub)
    IN  IF found = {} \/ IsInactive(CHOOSE u \in found : TRUE)
        THEN Answer(<<"find_username">>, "none", {}, TokenError, {}, {}, {}, "none")
        ELSE LET c == CHOOSE x \in payload : TRUE
             IN  Answer(<<"find_username">>, "none", {},
                        [status |-> 200, detail |-> "valid"], {},
                        {[username |-> c.sub, user_id |-> c.user_id, role |-> c.role]},
                        {}, "none")

\* verify_token(credentials): the claims of a token that decodes, 401 otherwise.
\* No store is read.
verify_token(token, t) ==
    LET payload == decode_access_token(token, t)
    IN  IF payload = {}
        THEN Answer(<<>>, "none", {}, TokenError, {}, {}, {}, "none")
        ELSE LET c == CHOOSE x \in payload : TRUE
             IN  Answer(<<>>, "none", {}, [status |-> 200, detail |-> "valid"], {},
                        {[username |-> c.sub, user_id |-> c.user_id, role |-> c.role]},
                        {}, "none")

---------------------------------------------------------------------------
(* The documents and requests the model draws from *)

Alice == <<"a", "l">>

AliceMail == <<"a", "@", "x">>

Bob == <<"b", "o">>

Ghost == <<"g", "h">>

Secret == <<"p", "w">>

Wrong == <<"n", "o">>

Inactive == <<"i", "n", "a", "c", "t", "i", "v", "e">>

NoFields == [f \in {} |-> PyNone]

OidParts == {[_id |-> ObjectId(<<"6", "5", "a", "f">>)], [_id |-> ObjectId(<<"1", "2">>)]}

IdParts == {NoFields, [id |-> PyInt(7)], [id |-> PyInt(0)], [id |-> PyStr(<<"4", "2">>)]}

NameParts ==
    {[username |-> PyStr(Alice)],
     [username |-> PyStr(Alice), email |-> PyStr(AliceMail)],
     [email |-> PyStr(AliceMail)]}

CredParts ==
    {NoFields,
     [password_hash |-> PyStr(get_password_hash(Secret))],
     [password |-> PyStr(Secret)],
     [hashed_password |-> PyStr(get_password_hash(Secret))],
     [password_hash |-> PyStr(<<>>), password |-> PyStr(Secret)],
     [password_hash |-> PyNone]}

ActiveParts ==
    {NoFields, [is_active |-> PyTrue], [is_active |-> PyFalse],
     [status |-> PyStr(Inactive)],
     [is_active |-> PyTrue, status |-> PyStr(Inactive)],
     [status |-> PyStr(<<"a", "c", "t", "i", "v", "e">>)]}

RoleParts ==
    {NoFields, [role |-> PyNone], [role |-> PyStr(Admin)],
     [role |-> PyStr(<<"A", "d", "m", "i", "n">>)], [role |-> PyStr(<<"u", "s", "e", "r">>)]}

RoleIdParts ==
    {NoFields, [role_id |-> PyInt(1)], [role_id |-> PyInt(2)], [role_id |-> PyInt(9)],
     [role_id |-> ObjectId(<<"b", "b">>)]}

AdminParts == {NoFields, [is_admin |-> PyTrue], [is_admin |-> PyFalse]}

ProfileParts ==
    {NoFields,
     [name |-> PyStr(<<"A">>)],
     [full_name |-> PyStr(<<"A", "L">>), name |-> PyStr(<<"A">>),
      position |-> PyStr(<<"c", "l", "e", "r", "k">>),
      created_at |-> [k |-> "datetime", n |-> 0, s |-> <<"2", "0", "2", "4">>]]}

\* The roles collection: one role with a numeric id, one without a name field,
\* one known by its ObjectId only.
RoleDocs ==
    << [_id |-> ObjectId(<<"a", "a">>), id |-> PyInt(1),
        name |-> PyStr(<<"A", "D", "M", "I", "N">>)],
       [_id |-> ObjectId(<<"a", "c">>), id |-> PyInt(2)],
       [_id |-> ObjectId(<<"b", "b">>), name |-> PyStr(<<"b", "u", "y", "e", "r">>)] >>

\* A second user, whose email is the first user's username.
BobDoc ==
    [_id |-> ObjectId(<<"0", "b">>), id |-> PyInt(8), username |-> PyStr(Bob),
     email |-> PyStr(Alice), password |-> PyStr(Secret),
     role |-> PyStr(<<"u", "s", "e", "r">>)]

HashedAlice ==
    [username |-> PyStr(Alice), password_hash |-> PyStr(get_password_hash(Secret))]

\* The user documents a run starts from: every way of naming the user, of
\* keeping the credential and of marking the account.
AccountDocs ==
    {[_id |-> ObjectId(<<"6", "5", "a", "f">>), role |-> PyStr(<<"u", "s", "e", "r">>)]
        @@ n @@ c @@ a : n \in NameParts, c \in CredParts, a \in ActiveParts}

\* Every way of identifying the user.
IdentityDocs ==
    {o @@ i @@ HashedAlice @@ r : o \in OidParts, i \in IdParts,
                                  r \in {NoFields, [role_id |-> PyInt(1)]}}

\* Every way of giving the role and the admin flag.
RoleOnlyDocs ==
    {[_id |-> ObjectId(<<"6", "5", "a", "f">>), id |-> PyInt(7)] @@ HashedAlice
        @@ r @@ ri @@ ad : r \in RoleParts, ri \in RoleIdParts, ad \in AdminParts}

\* Every way of filling the profile.
ProfileDocs ==
    {[_id |-> ObjectId(<<"6", "5", "a", "f">>), username |-> PyStr(Alice),
      password |-> PyStr(Secret)] @@ pr : pr \in ProfileParts}

SeedDocs == AccountDocs \cup IdentityDocs \cup RoleOnlyDocs \cup ProfileDocs

ReqUsernames == {Alice, AliceMail, Ghost}

ReqPasswords == {Secret, Wrong}

FailPoints == {"none", "connect_to_mongo", "find_username", "find_email", "find_role"}

MaxSeed == 2

HashSeeds == 1..MaxSeed

NoAnswer == Answer(<<>>, "none", {}, [status |-> 0, detail |-> ""], {}, {}, {}, "none")

NoRequest ==
    [op |-> "none", username |-> <<>>, password |-> <<>>, presented |-> {},
     at |-> 0, ans |-> NoAnswer]

---------------------------------------------------------------------------
(* The handlers as actions *)

\* POST /api/auth/login
LoginStep ==
    \E username \in ReqUsernames, password \in ReqPasswords, failAt \in FailPoints :
        \E ans \in {login(users, roles, database, hashSeed, now,
                             username, password, failAt)} :
            /\ last' = [op |-> "login", username |-> username, password |-> password,
                        presented |-> {}, at |-> now, ans |-> ans]
            /\ database' = ans.db
            /\ session' = IF ans.token = {} THEN session
                          ELSE {[token |-> CHOOSE x \in ans.token : TRUE,
                                 doc |-> CHOOSE x \in ans.doc : TRUE,
                                 user |-> CHOOSE x \in ans.user : TRUE]}
            /\ UNCHANGED <<users, roles, counters, hashSeed, now, procs>>

Login == LoginStep /\ UNCHANGED firstId

\* A token with a later expiry under the signature of the issued one.
Tampered(token) == [token EXCEPT !.claims.exp = @ + 1]

\* The same claims signed with another key.
Resigned(token) == [token EXCEPT !.sig = Sign("other-key", token.claims)]

\* The bearer tokens a client may present.
Presentable ==
    {s.token : s \in session} \cup {Tampered(s.token) : s \in session}
        \cup {Resigned(s.token) : s \in session}

\* GET /api/auth/me
GetCurrentUserStep ==
    \E token \in Presentable, failAt \in FailPoints \ {"find_email"} :
        \E ans \in {get_current_user(token, users, roles, database, hashSeed, now, failAt)} :
            /\ last' = [op |-> "me", username |-> <<>>, password |-> <<>>,
                        presented |-> {token}, at |-> now, ans |-> ans]
            /\ database' = ans.db
            /\ UNCHANGED <<users, roles, counters, hashSeed, now, session, procs>>

GetCurrentUser == GetCurrentUserStep /\ UNCHANGED firstId

\* GET /api/auth/verify
VerifyToken ==
    \E token \in Presentable :
        /\ last' = [op |-> "verify", username |-> <<>>, password |-> <<>>,
                    presented |-> {token}, at |-> now,
                    ans |-> verify_token(token, now)]
        /\ UNCHANGED <<users, roles, counters, database, hashSeed, now, firstId,
                       session, procs>>

\* startup_event: connect_to_mongo sets the global database.
startup_event ==
    /\ database = "none"
    /\ database' = "connected"
    /\ UNCHANGED <<users, roles, counters, hashSeed, now, last, firstId, session, procs>>

Init ==
    /\ \E d \in SeedDocs : users = <<d, BobDoc>>
    /\ roles = RoleDocs
    /\ counters = 0
    /\ database = "none"
    /\ hashSeed \in HashSeeds
    /\ now = 0
    /\ last = NoRequest
    /\ firstId = {}
    /\ session = {}
    /\ procs = <<>>

Next == Login \/ GetCurrentUser \/ startup_event

Spec == Init /\ [][Next]_vars

---------------------------------------------------------------------------
(* The integer id across calls and across restarts of the server *)

\* The first (stored identifier, integer id) pair a call answered, kept.
NoteId(ans) ==
    IF firstId = {} /\ ans.ident # {}
    THEN {[ident |-> CHOOSE x \in ans.ident : TRUE,
           id |-> (CHOOSE u \in ans.user : TRUE).id]}
    ELSE firstId

LoginNoted == LoginStep /\ firstId' = NoteId(last'.ans)

GetCurrentUserNoted == GetCurrentUserStep /\ firstId' = NoteId(last'.ans)

\* The server process is started anew: the module globals are those of
\* database.py again and the interpreter draws a new string-hash seed.
Restart ==
    \E seed \in HashSeeds :
        /\ hashSeed' = seed
        /\ database' = "none"
        /\ UNCHANGED <<users, roles, counters, now, last, firstId, session, procs>>

InitRestart ==
    /\ \E d \in IdentityDocs : users = <<d, BobDoc>>
    /\ roles = RoleDocs
    /\ counters = 0
    /\ database = "none"
    /\ hashSeed \in HashSeeds
    /\ now = 0
    /\ last = NoRequest
    /\ firstId = {}
    /\ session = {}
    /\ procs = <<>>

NextRestart == LoginNoted \/ GetCurrentUserNoted \/ Restart

SpecRestart == InitRestart /\ [][NextRestart]_vars

---------------------------------------------------------------------------
(* What the claims speak of, read off the request and the record alone *)

LastDoc == CHOOSE d \in last.ans.doc : TRUE

LastUser == CHOOSE u \in last.ans.user : TRUE

LastToken == CHOOSE x \in last.ans.token : TRUE

\* What the caller of login sees.
Response(ans) ==
    [status |-> ans.status, detail |-> ans.detail, token |-> ans.token, user |-> ans.user]

\* The credential value of a record: the first non-empty of the three fields.
CredentialOf(doc) ==
    IF "password_hash" \in DOMAIN doc /\ doc.password_hash.s # <<>> THEN doc.password_hash.s
    ELSE IF "password" \in DOMAIN doc /\ doc.password.s # <<>> THEN doc.password.s
    ELSE IF "hashed_password" \in DOMAIN doc THEN doc.hashed_password.s
    ELSE <<>>

\* The submitted password is the one the credential value stands for.
PasswordCorrect(doc, password) ==
    /\ CredentialOf(doc) # <<>>
    /\ verify_password(password, PyStr(CredentialOf(doc)))

MarkedInactive(doc) ==
    \/ "is_active" \in DOMAIN doc /\ doc.is_active = PyFalse
    \/ "status" \in DOMAIN doc /\ doc.status = PyStr(Inactive)

\* A login that reached the store, found a record, and no store call raised.
LoginFound == last.op = "login" /\ last.ans.failed = "none" /\ last.ans.doc # {}

\* C1: a login that finds a record but is given a password that does not match
\* its credential, or finds a record without a credential value, answers exactly
\* what a login with a username no record matches answers on the same store:
\* status 401 and the same detail, no token, no user.
C1_DeniedLikeUnknownUser ==
    (LoginFound /\ ~PasswordCorrect(LastDoc, last.password))
    => /\ last.ans.status = 401
       /\ Response(last.ans)
            = Response(login(users, roles, "connected", hashSeed, last.at,
                                Ghost, last.password, "none"))

C1_Witness ==
    /\ LoginFound
    /\ CredentialOf(LastDoc) # <<>>
    /\ ~PasswordCorrect(LastDoc, last.password)
    /\ last.ans.status = 401

\* C2: a login that finds a record marked inactive and is given its correct
\* password fails with 403 'User account is disabled', never with 401, and
\* issues no token.
C2_InactiveIsDisabled ==
    (LoginFound /\ PasswordCorrect(LastDoc, last.password) /\ MarkedInactive(LastDoc))
    => /\ last.ans.status = 403
       /\ last.ans.detail = "User account is disabled"
       /\ last.ans.token = {}

C2_Witness ==
    /\ LoginFound
    /\ PasswordCorrect(LastDoc, last.password)
    /\ "status" \in DOMAIN LastDoc
    /\ LastDoc.status = PyStr(Inactive)
    /\ Get1(LastDoc, "is_active") # PyFalse
    /\ last.ans.status = 403

\* C3: a login with the correct password that finds, by the submitted username,
\* an active record succeeds: status 200 with a token and a user summary.
C3_ActiveCorrectLoginSucceeds ==
    (/\ LoginFound
     /\ Get1(LastDoc, "username") = PyStr(last.username)
     /\ PasswordCorrect(LastDoc, last.password)
     /\ ~MarkedInactive(LastDoc))
    => /\ last.ans.status = 200
       /\ last.ans.token # {}
       /\ last.ans.user # {}

\* C8: a login in which a store call raised ends with status 500, with no token
\* and no user summary, and made the failed call once, as its last call.
C8_StoreFailureIsInternal ==
    (last.op = "login" /\ last.ans.failed # "none")
    => /\ last.ans.status = 500
       /\ last.ans.token = {}
       /\ last.ans.user = {}
       /\ last.ans.calls # <<>>
       /\ last.ans.calls[Len(last.ans.calls)] = last.ans.failed
       /\ \A i \in 1..(Len(last.ans.calls) - 1) : last.ans.calls[i] # last.ans.failed

C8_Witness ==
    /\ last.op = "login"
    /\ last.ans.failed = "find_role"
    /\ last.ans.status = 500

\* The identifier a record is known by: its "id" when that is set and neither
\* 0, empty nor False, the string form of its _id otherwise.
StoredIdentifier(doc) ==
    IF "id" \in DOMAIN doc /\ doc.id \notin {PyNone, PyInt(0), PyStr(<<>>), PyFalse}
    THEN doc.id
    ELSE PyStr(doc._id.s)

LoginSucceeded == last.op = "login" /\ last.ans.status = 200

C7_SameIdentifierSameId ==
    \A f \in firstId :
        (last.op \in {"login", "me"} /\ last.ans.ident = {f.ident})
            => LastUser.id = f.id

\* The role a record resolves to: the name of the referenced role entity when
\* the record has a reference and the entity is found, the inline role
\* otherwise, "employee" when neither resolves.
ReferencedNames(doc, roleColl) ==
    IF "role_id" \notin DOMAIN doc \/ doc.role_id = PyNone THEN {}
    ELSE {roleColl[i].name : i \in
            {j \in 1..Len(roleColl) :
                /\ "name" \in DOMAIN roleColl[j]
                /\ IF doc.role_id.k = "int"
                   THEN "id" \in DOMAIN roleColl[j] /\ roleColl[j].id = doc.role_id
                   ELSE roleColl[j]._id = doc.role_id}}

ExpectedRole(doc, roleColl) ==
    IF ReferencedNames(doc, roleColl) # {}
    THEN CHOOSE nm \in ReferencedNames(doc, roleColl) : TRUE
    ELSE IF "role" \in DOMAIN doc /\ doc.role # PyNone THEN doc.role
    ELSE PyStr(Employee)

ExpectedAdmin(doc, roleColl) ==
    \/ Lower(ExpectedRole(doc, roleColl).s) = Admin
    \/ Get1(doc, "is_admin") = PyTrue

\* C9: a login that gets as far as resolving the role (record found, password
\* correct, account active, no store call raised) reports, in the token and in
\* the summary, the role the record resolves to, and the admin flag that goes
\* with it.
C9_ReportsResolvedRole ==
    (LoginFound /\ PasswordCorrect(LastDoc, last.password) /\ ~MarkedInactive(LastDoc))
    => /\ last.ans.user # {}
       /\ LastUser.role = ExpectedRole(LastDoc, roles)
       /\ LastToken.claims.role = ExpectedRole(LastDoc, roles)
       /\ (LastUser.is_admin = PyTrue) <=> ExpectedAdmin(LastDoc, roles)

---------------------------------------------------------------------------
(* Tokens over time, with the store written by its other clients *)

MaxTime == 3

Tick ==
    /\ now < MaxTime
    /\ now' = now + 1
    /\ UNCHANGED <<users, roles, counters, database, hashSeed, last, firstId,
                   session, procs>>

\* The store's other clients: the first user is set inactive, deleted, renamed
\* or given another role.
DeactivateUser ==
    /\ users # <<>>
    /\ Get1(users[1], "is_active") # PyFalse
    /\ users' = [users EXCEPT ![1] = [is_active |-> PyFalse] @@ @]
    /\ UNCHANGED <<roles, counters, database, hashSeed, now, last, firstId,
                   session, procs>>

DeleteUser ==
    /\ Len(users) > 1
    /\ users' = Tail(users)
    /\ UNCHANGED <<roles, counters, database, hashSeed, now, last, firstId,
                   session, procs>>

RenameUser ==
    /\ users # <<>>
    /\ Get1(users[1], "username") = PyStr(Alice)
    /\ users' = [users EXCEPT ![1] = [username |-> PyStr(Ghost)] @@ @]
    /\ UNCHANGED <<roles, counters, database, hashSeed, now, last, firstId,
                   session, procs>>

ChangeRole ==
    /\ users # <<>>
    /\ Get1(users[1], "role") # PyStr(<<"c", "l", "e", "r", "k">>)
    /\ users' = [users EXCEPT ![1] =
                    [role |-> PyStr(<<"c", "l", "e", "r", "k">>)]
                        @@ [f \in DOMAIN @ \ {"role_id"} |-> @[f]]]
    /\ UNCHANGED <<roles, counters, database, hashSeed, now, last, firstId,
                   session, procs>>

TokenDocs ==
    {d \in IdentityDocs :
        /\ d._id = ObjectId(<<"6", "5", "a", "f">>)
        /\ ("id" \in DOMAIN d => d.id = PyInt(7))} \cup
    {[_id |-> ObjectId(<<"6", "5", "a", "f">>), email |-> PyStr(AliceMail),
      password |-> PyStr(Secret), role |-> PyStr(Admin), role_id |-> ObjectId(<<"b", "b">>)]}

InitToken ==
    /\ \E d \in TokenDocs : users = <<d, BobDoc>>
    /\ roles = RoleDocs
    /\ counters = 0
    /\ database = "connected"
    /\ hashSeed = 1
    /\ now = 0
    /\ last = NoRequest
    /\ firstId = {}
    /\ session = {}
    /\ procs = <<>>

NextToken ==
    Login \/ VerifyToken \/ Tick \/ DeactivateUser \/ DeleteUser \/ RenameUser
        \/ ChangeRole

SpecToken == InitToken /\ [][NextToken]_vars

\* A verify call that was given the token of the last successful login before
\* that token's expiry.
VerifiedInTime(s) ==
    /\ last.op = "verify"
    /\ last.presented = {s.token}
    /\ last.at < s.token.claims.exp

\* C4: verify, given an issued token before its expiry, answers the claims that
\* login embedded: the record's username, the string form of the record's
\* identifier and the role name of the login response.
C4_VerifyReturnsEmbeddedClaims ==
    \A s \in session :
        VerifiedInTime(s)
            => /\ last.ans.status = 200
               /\ last.ans.user =
                    {[username |-> Get(s.doc, "username", PyStr(<<>>)),
                      user_id |-> Str(StoredIdentifier(s.doc)),
                      role |-> s.user.role]}

C4_Witness ==
    \E s \in session :
        /\ VerifiedInTime(s)
        /\ last.ans.status = 200
        /\ "id" \notin DOMAIN s.doc
        /\ s.user.role # Get(s.doc, "role", PyStr(Employee))

\* C5: verify accepts an issued token at every time before its expiry, whatever
\* the store holds by then, and reads no store.
C5_UnexpiredTokenAlwaysAccepted ==
    \A s \in session :
        VerifiedInTime(s) => (last.ans.status = 200 /\ last.ans.calls = <<>>)

\* The token's user is no longer in the store, and the token was issued at an
\* earlier time than the verify call.
C5_Witness ==
    \E s \in session :
        /\ VerifiedInTime(s)
        /\ last.ans.status = 200
        /\ last.at > s.token.claims.exp - TokenTTL
        /\ FindOne(users, "username", s.token.claims.sub) = {}

---------------------------------------------------------------------------
(* create_user.py: invocations of the helper, each a process of its own *)

MaxProcs == 2

NewUsernames == {Alice, Bob}

ProcIds == 1..MaxProcs

\* int(datetime.now().timestamp()) % 1000000
TimestampId(t) == (1793000000 + t) % 1000000

\* The ids of the documents find({"id": {"$type": "number"}}) returns.
NumericIds(userColl) ==
    {userColl[i].id.n : i \in {j \in 1..Len(userColl) :
                                "id" \in DOMAIN userColl[j] /\ userColl[j].id.k = "int"}}

SetMax(S) == CHOOSE x \in S : \A y \in S : y <= x

\* user_doc
user_doc(userColl, user_id, username, password) ==
    [_id |-> ObjectId(<<"c">> \o NatToStr(Len(userColl))),
     id |-> PyInt(user_id),
     username |-> PyStr(username),
     password_hash |-> PyStr(get_password_hash(password)),
     email |-> PyNone,
     full_name |-> PyNone,
     role |-> PyStr(<<"u", "s", "e", "r">>),
     is_active |-> PyTrue,
     created_at |-> [k |-> "datetime", n |-> 0, s |-> <<"2", "0", "2", "6">>]]

\* existing_user = await users_collection.find_one({"username": username})
CreateCheck(p) ==
    /\ procs[p].pc = "check"
    /\ procs' = [procs EXCEPT ![p].pc =
                    IF FindOne(users, "username", PyStr(procs[p].username)) # {}
                    THEN "returned_false" ELSE "counter"]
    /\ UNCHANGED <<users, roles, counters, database, hashSeed, now, last, firstId, session>>

\* counters_collection.find_one_and_update(..., {"$inc": {"seq": 1}}, upsert=True)
CreateCounter(p) ==
    /\ procs[p].pc = "counter"
    /\ counters' = counters + 1
    /\ procs' = [procs EXCEPT ![p].pc = "insert", ![p].user_id = counters + 1]
    /\ UNCHANGED <<users, roles, database, hashSeed, now, last, firstId, session>>

\* The counter update raises: user_id stays None.
CreateCounterFails(p) ==
    /\ procs[p].pc = "counter"
    /\ procs' = [procs EXCEPT ![p].pc = "max_id"]
    /\ UNCHANGED <<users, roles, counters, database, hashSeed, now, last, firstId, session>>

\* The highest numeric id plus one, or max(1000, total_users * 100 + 1); max()
\* of no non-zero id raises, and the timestamp stands in.
CreateMaxId(p) ==
    /\ procs[p].pc = "max_id"
    /\ procs' = [procs EXCEPT ![p].pc = "insert", ![p].user_id =
                    IF NumericIds(users) = {}
                    THEN (IF Len(users) * 100 + 1 > 1000 THEN Len(users) * 100 + 1 ELSE 1000)
                    ELSE IF NumericIds(users) \ {0} = {} THEN TimestampId(now)
                    ELSE SetMax(NumericIds(users) \ {0}) + 1]
    /\ UNCHANGED <<users, roles, counters, database, hashSeed, now, last, firstId, session>>

\* The find raises: the timestamp stands in.
CreateMaxIdFails(p) ==
    /\ procs[p].pc = "max_id"
    /\ procs' = [procs EXCEPT ![p].pc = "insert", ![p].user_id = TimestampId(now)]
    /\ UNCHANGED <<users, roles, counters, database, hashSeed, now, last, firstId, session>>

\* result = await users_collection.insert_one(user_doc)
CreateInsert(p) ==
    /\ procs[p].pc = "insert"
    /\ users' = Append(users, user_doc(users, procs[p].user_id, procs[p].username, Secret))
    /\ procs' = [procs EXCEPT ![p].pc = "returned_true"]
    /\ UNCHANGED <<roles, counters, database, hashSeed, now, last, firstId, session>>

InitCreate ==
    /\ users = <<BobDoc>>
    /\ roles = RoleDocs
    /\ counters = 0
    /\ database = "none"
    /\ hashSeed = 1
    /\ now \in 0..1
    /\ last = NoRequest
    /\ firstId = {}
    /\ session = {}
    /\ procs \in [ProcIds -> {[pc |-> "check", username |-> u, user_id |-> 0] :
                                u \in NewUsernames}]

NextCreate ==
    \E p \in ProcIds :
        \/ CreateCheck(p)
        \/ CreateCounter(p)
        \/ CreateCounterFails(p)
        \/ CreateMaxId(p)
        \/ CreateMaxIdFails(p)
        \/ CreateInsert(p)

SpecCreate == InitCreate /\ [][NextCreate]_vars

\* C10: the store never holds two user documents with the same username.
C10_UsernamesUnique ==
    \A i, j \in 1..Len(users) :
        (i # j /\ "username" \in DOMAIN users[i] /\ "username" \in DOMAIN users[j])
            => users[i].username # users[j].username

====
